---- MODULE Spec2Model ----
(***************************************************************************)
(* State-machine model of BackendAPIClient (src/api_client.py): the retry  *)
(* loop of _make_request, the named fetch wrappers, check_backend_health   *)
(* and the concurrent batch fetch get_multiple_metrics, together with the  *)
(* settings of src/config.py the client is constructed from.               *)
(***************************************************************************)
EXTENDS Integers, Sequences, FiniteSets, TLC

\* ------------------------------------------------------------------ bounds
\* MAX_RETRIES is read from the environment without validation
\* (config.py:22); the model constructs clients with 0..MaxRetriesBound.
MaxRetriesBound == 3
\* get_visitor_trend / get_queue_history are called with hours in
\* 0..MaxHours, and with the default.
MaxHours == 2

\* The chat log holds at most MaxMessages messages.
MaxMessages == 4

\* ---------------------------------------------------------------- settings
REQUEST_TIMEOUT == 30
DEFAULT_MAX_RETRIES == 3
MIN_QUERY_LENGTH == 2
MAX_QUERY_LENGTH == 500
MODEL_NAME == "gpt-3.5-turbo"
OPENROUTER_BASE_URL == "https://openrouter.ai/api/v1"
BACKEND_API_URL == "http://localhost:8000"
DEFAULT_HOURS == 6
SECONDS_PER_DAY == 86400
SECONDS_PER_HOUR == 3600
SECONDS_PER_MINUTE == 60

API_ENDPOINTS ==
  [ health            |-> "/health",
    visitors_current  |-> "/api/visitors/current",
    visitors_sections |-> "/api/visitors/sections",
    cashier_current   |-> "/api/cashier/current",
    cashier_history   |-> "/api/cashier/history",
    cashier_wait_time |-> "/api/cashier/wait-time",
    heatmap           |-> "/api/heatmap/",
    predictions       |-> "/api/predictions/",
    daily_analytics   |-> "/api/visitors/analytics/daily" ]

\* ----------------------------------------------------------- Python values
PyNone == [kind |-> "None"]
PyDict(items) == [kind |-> "dict", items |-> items]
PyList(items) == [kind |-> "list", items |-> items]
PyInt(i) == [kind |-> "int", val |-> i]
PyStr(str) == [kind |-> "str", val |-> str]

\* bool(v): None, 0 and empty containers are falsy.
Truthy(v) ==
  CASE v.kind = "None" -> FALSE
    [] v.kind = "int"  -> v.val # 0
    [] v.kind = "str"  -> v.val # ""
    [] v.kind \in {"dict", "list"} -> v.items # <<>>
    [] OTHER -> TRUE

\* a or b
PyOr(a, b) == IF Truthy(a) THEN a ELSE b

\* A string built by an f-string is kept as the sequence of its parts.
NonEmptyStr(s) == \E i \in DOMAIN s : s[i] # ""

\* ------------------------------------------------------------- the backend
\* Response bodies on the wire and what response.json() decodes them to.
Bodies ==
  { "{\"current_visitors\": 42, \"timestamp\": \"2024-01-01T00:00:00\"}",
    "{}",
    "[{\"section\": \"A\", \"total_visitors\": 7}]",
    "[]",
    "null",
    "0",
    "<html>Bad Gateway</html>" }

ValidJSON(body) == body # "<html>Bad Gateway</html>"

json_loads(body) ==
  CASE body = "{\"current_visitors\": 42, \"timestamp\": \"2024-01-01T00:00:00\"}"
         -> PyDict(<< <<"current_visitors", "42">>,
                      <<"timestamp", "2024-01-01T00:00:00">> >>)
    [] body = "{}" -> PyDict(<<>>)
    [] body = "[{\"section\": \"A\", \"total_visitors\": 7}]"
         -> PyList(<< PyDict(<< <<"section", "A">>,
                                <<"total_visitors", "7">> >>) >>)
    [] body = "[]" -> PyList(<<>>)
    [] body = "null" -> PyNone
    [] body = "0" -> PyInt(0)

Statuses == {200, 404, 500}

\* What one call of session.get / session.post / client.get can produce.
Transport ==
  { [class |-> "Timeout", status |-> 0, body |-> "", text |-> t] :
      t \in {"Read timed out."} }
  \cup
  { [class |-> "ConnectionError", status |-> 0, body |-> "", text |-> t] :
      t \in {"", "Connection refused"} }
  \cup
  { [class |-> "Response", status |-> s, body |-> b, text |-> ""] :
      s \in Statuses, b \in Bodies }

\* ------------------------------------------------- outcomes of a statement
Returned(v) == [kind |-> "return", value |-> v]
Raised(cls, msg) == [kind |-> "raise", class |-> cls, msg |-> msg]
NoResult == [kind |-> "pending"]

\* variant: the status of the response is not looked at
raise_for_status_skipped(resp) == Returned(PyNone)

\* response.raise_for_status(): HTTPError for 4xx and 5xx.
raise_for_status(resp) ==
  IF resp.status >= 400 /\ resp.status < 500
    THEN Raised("HTTPError", <<ToString(resp.status), " Client Error">>)
  ELSE IF resp.status >= 500 /\ resp.status < 600
    THEN Raised("HTTPError", <<ToString(resp.status), " Server Error">>)
  ELSE Returned(PyNone)

\* response.json()
response_json(resp) ==
  IF ValidJSON(resp.body) THEN Returned(json_loads(resp.body))
  ELSE Raised("JSONDecodeError", <<"Expecting value">>)


\* "ok" or the class of the exception raised
OutcomeClass(r) == IF r.kind = "return" THEN "ok" ELSE r.class

\* try-body of _make_request: the request, raise_for_status(), json().
try_request(o) ==
  IF o.class # "Response" THEN Raised(o.class, <<o.text>>)
  ELSE IF raise_for_status(o).kind = "raise" THEN raise_for_status(o)
  ELSE response_json(o)

\* ------------------------------------------------------ datetime arithmetic
datetime(day, second) == [day |-> day, second |-> second]
timedelta(hours) ==
  [ days    |-> (hours * SECONDS_PER_HOUR) \div SECONDS_PER_DAY,
    seconds |-> (hours * SECONDS_PER_HOUR) % SECONDS_PER_DAY ]
Ordinal(dt) == dt.day * SECONDS_PER_DAY + dt.second
\* datetime - timedelta, renormalised to (day, second of day)
datetime_sub(dt, td) ==
  LET total == Ordinal(dt) - (td.days * SECONDS_PER_DAY + td.seconds)
  IN  datetime(total \div SECONDS_PER_DAY, total % SECONDS_PER_DAY)
\* datetime.isoformat(): date "T" HH MM SS
isoformat(dt) ==
  << "D", dt.day, "T",
     dt.second \div SECONDS_PER_HOUR,
     (dt.second % SECONDS_PER_HOUR) \div SECONDS_PER_MINUTE,
     dt.second % SECONDS_PER_MINUTE >>
\* datetime.fromisoformat(), the reading a receiver makes of the parameter
fromisoformat(s) ==
  datetime(s[2], s[4] * SECONDS_PER_HOUR + s[5] * SECONDS_PER_MINUTE + s[6])

\* Readings of datetime.now() at the start of a call.
Nows == { datetime(1, s) : s \in {0, 9015, 86399} }
Hours == (0 .. MaxHours) \cup {DEFAULT_HOURS}

\* ------------------------------------------------------------------- state
VARIABLES
  base_url,            \* self.base_url
  timeout,             \* self.timeout
  max_retries,         \* self.max_retries
  session,             \* self._session: "None" or "Session"
  session_count,       \* requests.Session objects created by this client
  tool,                \* the tool of tools.py that made the current call
  tool_output,         \* the text that tool returned to the agent
  tool_raised,         \* the exception that left the tool, if one did
  settings,            \* settings.OPENAI_API_KEY / OPENROUTER_API_KEY
  agent,               \* the module-level RetailAgent of agents.py
  session_state,       \* st.session_state: messages, agent_initialized
  ui,                  \* the last interaction with the page and what it showed
  requests_json_error, \* base class of the error response.json() raises
  pc,                  \* "idle", "loop" (in _make_request), "gather", "done"
  op,                  \* the public operation in progress
  call,                \* endpoint, params, method of the _make_request call
  attempt,             \* loop variable of _make_request
  trace,               \* per attempt made: exception class or "ok", start, end
  sent,                \* requests put on the wire in this call
  sleeps,              \* coroutine objects created by asyncio.sleep(...)
  elapsed,             \* seconds the caller has been blocked in this call
  mr_result,           \* how _make_request ended
  result,              \* how the public operation ended
  tasks                \* get_multiple_metrics: the three gathered coroutines

vars == << base_url, timeout, max_retries, session, session_count,
           requests_json_error, pc, op, call, attempt, trace, sent, sleeps,
           elapsed, mr_result, result, tasks, tool, tool_output, tool_raised,
           settings, agent, session_state, ui >>

config == << base_url, timeout, max_retries, requests_json_error >>
app_vars == << session_state, ui >>
agent_vars == << settings, agent, app_vars >>
client_vars ==
  << base_url, timeout, max_retries, session, session_count,
     requests_json_error, pc, op, call, attempt, trace, sent, sleeps,
     elapsed, mr_result, result, tasks, tool, tool_output, tool_raised >>

NoArgs == [hours |-> -1]
NoTool == [name |-> "none", section1 |-> "", section2 |-> ""]
NoText == <<>>

\* agents.py before `agent = RetailAgent()` has run
Unconstructed ==
  [ state |-> "unconstructed", constructions |-> 0, use_openrouter |-> FALSE,
    llm |-> PyNone, agent_executor |-> "None", error |-> NoResult,
    query |-> "", executor_outcome |-> NoResult, response |-> NoResult ]
\* initialize_session_state on a fresh session; no interaction yet
NoSession == [messages |-> <<>>, agent_initialized |-> FALSE]
NoEvent == [event |-> "none", query |-> "", error |-> NoText]
NoCall == [endpoint |-> <<>>, params |-> PyNone, method |-> "GET", args |-> NoArgs]
NoTasks == [i \in {} |-> NoResult]

\* BackendAPIClient.__init__ with the settings read from the environment.
Init ==
  /\ base_url = BACKEND_API_URL
  /\ timeout = REQUEST_TIMEOUT
  /\ max_retries \in 0 .. MaxRetriesBound
  /\ session = "None"
  /\ session_count = 0
  /\ tool = NoTool
  /\ tool_output = NoText
  /\ tool_raised = NoResult
  /\ requests_json_error \in {"RequestException", "ValueError"}
  /\ pc = "idle"
  /\ op = "none"
  /\ call = NoCall
  /\ attempt = 0
  /\ trace = <<>>
  /\ sent = <<>>
  /\ sleeps = <<>>
  /\ elapsed = 0
  /\ mr_result = NoResult
  /\ result = NoResult
  /\ tasks = NoTasks
  /\ settings = [ OPENAI_API_KEY |-> PyStr("sk-valid"),
                  OPENROUTER_API_KEY |-> PyNone ]
  /\ agent = Unconstructed
  /\ session_state = NoSession
  /\ ui = NoEvent

\* ------------------------------------------------------------ _make_request
\* except requests.exceptions.Timeout
IsTimeout(cls) == cls = "Timeout"
\* except requests.exceptions.RequestException
IsRequestException(cls) ==
  \/ cls \in {"Timeout", "ConnectionError", "HTTPError"}
  \/ cls = "JSONDecodeError" /\ requests_json_error = "RequestException"

\* asyncio.sleep(delay) called without await: a coroutine object is created
\* and dropped; the calling thread does not block.
asyncio_sleep(delay) == [kind |-> "coroutine", delay |-> delay, awaited |-> FALSE]
Blocks(co) == IF co.awaited THEN co.delay ELSE 0

\* seconds one request takes: a timeout takes the configured timeout
Duration(o) == IF o.class = "Timeout" THEN timeout ELSE 0

TimedOutMessage(endpoint) ==
  <<"Request to ">> \o endpoint \o
  <<" timed out after ", ToString(max_retries), " attempts">>
FailedMessage(endpoint, e) == <<"Failed to call ">> \o endpoint \o <<": ">> \o e.msg

\* the lazily created requests.Session
session_property == IF session = "None" THEN "Session" ELSE session

\* variant: the property builds a Session on every access
session_creations_eager == session_count + 1

\* Sessions built once the property has been read: one more only if
\* self._session was None. The Session in use is numbered by its creation.
session_creations == IF session = "None" THEN session_count + 1 ELSE session_count

\* variant: check_backend_health without its try/except
check_backend_health_unguarded(mr) == mr

\* What the public operation `name` makes of the way _make_request ended.
check_backend_health_result(mr) ==
  IF mr.kind = "raise"
    THEN Returned([kind |-> "dict", status |-> "unhealthy", error |-> mr.msg])
    ELSE mr

\* variant: the wrapper returns what _make_request returned, without `or`
wrapper_result_no_default(mr, default) == mr

\* `return self._make_request(...) or <default>`
wrapper_result(mr, default) ==
  IF mr.kind = "raise" THEN mr ELSE Returned(PyOr(mr.value, default))

SingularWrappers ==
  { "get_current_visitors", "get_daily_analytics", "get_cashier_status",
    "get_wait_time", "get_density_analysis", "get_traffic_forecast",
    "get_metric_prediction" }
ListWrappers ==
  { "get_section_traffic", "get_visitor_trend", "get_queue_history",
    "get_heatmap_data", "get_predictions" }
Wrappers == SingularWrappers \cup ListWrappers

Default(name) == IF name \in ListWrappers THEN PyList(<<>>) ELSE PyDict(<<>>)

public_result(name, mr) ==
  IF name = "check_backend_health" THEN check_backend_health_result(mr)
  ELSE IF name \in Wrappers THEN wrapper_result(mr, Default(name))
  ELSE mr


\* ------------------------------------------- utils/formatters.py, tools.py
\* A text is kept as the sequence of the parts its f-string or its
\* concatenations put together, every interpolated value a part of its own;
\* the emoji and the markdown line breaks of the literals are left out.
\* JSON numbers are kept as their decimal text; Number gives their value.
Number(v) == CASE v = "42" -> 42 [] v = "7" -> 7 [] OTHER -> 0

\* key in d, for a dict; an element test for a list
Contains(d, key) ==
  CASE d.kind = "dict" -> \E i \in DOMAIN d.items : d.items[i][1] = key
    [] d.kind = "list" ->
         \E i \in DOMAIN d.items : d.items[i].kind = "str" /\ d.items[i].val = key
    [] OTHER -> FALSE

\* d.get(key, default)
Get(d, key, default) ==
  IF Contains(d, key)
    THEN d.items[CHOOSE i \in DOMAIN d.items : d.items[i][1] = key][2]
    ELSE default

\* f"{x:.1f}" of a ratio num / den (den > 0) scaled by 100
Percent1f(num, den) ==
  LET tenths == (num * 1000) \div den
  IN  <<ToString(tenths \div 10), ".", ToString(tenths % 10), "%">>

\* str.lower() on the section names in use
Lower(name) == CASE name = "A" -> "a" [] name = "B" -> "b" [] OTHER -> name

AttributeError(type, attr) ==
  Raised("AttributeError", <<"'", type, "' object has no attribute '", attr, "'">>)

\* the tool's `except Exception as e: return f"... {str(e)}"`
ErrorText(what, e) == <<"Error ", what, ": ">> \o e.msg

\* variant: a tool without its try / except
except_Exception_absent(what, r) == r

\* try: <r> except Exception as e: return f"Error {what}: {str(e)}"
except_Exception(what, r) ==
  IF r.kind = "raise" THEN Returned(ErrorText(what, r)) ELSE r

visitor_context(count) ==
  IF count = 0 THEN "The store is currently empty. Perfect time for restocking!"
  ELSE IF count < 10 THEN "It's very quiet. Consider running a promotion?"
  ELSE IF count < 30 THEN "Moderate activity. Normal operations recommended."
  ELSE IF count < 50 THEN "Busy! Ensure staff are adequately distributed."
  ELSE "Very busy! Consider opening additional cashiers."

\* variant: no test for missing data before the report is built
format_visitor_response_unguarded(data, now) ==
  LET count     == Get(data, "current_visitors", "0")
      timestamp == Get(data, "timestamp", isoformat(now))
  IN  << "## Current Store Status", "**Visitors in store**: ", count, " people",
         "**Analysis**: ", visitor_context(Number(count)),
         "*Last updated: ", timestamp, "*" >>

format_visitor_response(data, now) ==
  IF ~Truthy(data) \/ ~Contains(data, "current_visitors")
    THEN <<"Current visitor data is unavailable.">>
    ELSE LET count     == Get(data, "current_visitors", "0")
             timestamp == Get(data, "timestamp", isoformat(now))
         IN  << "## Current Store Status",
                "**Visitors in store**: ", count, " people",
                "**Analysis**: ", visitor_context(Number(count)),
                "*Last updated: ", timestamp, "*" >>

cashier_recommendation(queue_length) ==
  IF queue_length = 0
    THEN <<"Perfect time for customers to checkout!", "No action needed.">>
  ELSE IF queue_length <= 2
    THEN <<"Good checkout conditions.", "Monitor but no immediate action required.">>
  ELSE IF queue_length <= 5
    THEN <<"Moderate wait expected.", "Consider preparing an additional cashier.">>
  ELSE IF queue_length <= 8
    THEN <<"Long queue forming.", "Open additional cashier immediately.">>
  ELSE <<"Critical queue length!", "Open all available cashiers and inform management.">>

format_cashier_response(data, now) ==
  IF ~Truthy(data) \/ ~Contains(data, "queue_length")
    THEN <<"Cashier status data is currently unavailable.">>
    ELSE LET queue_length == Get(data, "queue_length", "0")
             status       == Get(data, "status", "Unknown")
             wait_time    == Get(data, "wait_time_minutes",
                                 ToString(Number(queue_length) * 2))
             timestamp    == Get(data, "timestamp", isoformat(now))
             advice       == cashier_recommendation(Number(queue_length))
         IN  << "## Cashier Status",
                "**Queue Length**: ", queue_length, " people",
                "**Status**: ", status,
                "**Estimated Wait**: ", wait_time, " minutes",
                "**Recommendation**: ", advice[1],
                "**Action Required**: ", advice[2],
                "*Last updated: ", timestamp, "*" >>

\* the sections of the areas whose density_level falls in the given class
RECURSIVE areas_of(_, _)
areas_of(areas, level) ==
  IF areas = <<>> THEN <<>>
  ELSE LET area    == Head(areas)
           density == Get(area, "density_level", "low")
           class   == IF density \in {"high", "medium"} THEN density ELSE "low"
       IN  (IF class = level THEN <<Get(area, "section", "Unknown")>> ELSE <<>>)
             \o areas_of(Tail(areas), level)

\* the result of the formatter, or the exception that leaves it
format_heatmap_response(data) ==
  IF ~Truthy(data) THEN Returned(<<"No heatmap data available at the moment.">>)
  ELSE IF data.kind = "dict"
    THEN \* `for area in data` yields the keys: area.get on a str
         AttributeError("str", "get")
  ELSE LET high_traffic   == areas_of(data.items, "high")
           medium_traffic == areas_of(data.items, "medium")
           low_traffic    == areas_of(data.items, "low")
       IN  Returned(
             <<"## Store Heatmap Analysis">>
             \o (IF high_traffic # <<>>
                   THEN <<"### High Traffic Areas">> \o high_traffic ELSE <<>>)
             \o (IF medium_traffic # <<>>
                   THEN <<"### Medium Traffic Areas">> \o medium_traffic ELSE <<>>)
             \o (IF low_traffic # <<>>
                   THEN <<"### Low Traffic Areas">> \o low_traffic ELSE <<>>)
             \o << "### Summary",
                   "- **Total monitored areas**: ",
                   ToString(Len(high_traffic) + Len(medium_traffic) + Len(low_traffic)),
                   "- **High traffic**: ", ToString(Len(high_traffic)), " areas",
                   "- **Medium traffic**: ", ToString(Len(medium_traffic)), " areas",
                   "- **Low traffic**: ", ToString(Len(low_traffic)), " areas" >>)

\* the try block of tools.get_current_visitors: its text, or the exception raised in it
tools_get_current_visitors_try(res, now) ==
  IF res.kind = "raise" THEN res
  ELSE Returned(format_visitor_response(res.value, now))

\* tools.get_current_visitors
tools_get_current_visitors(res, now) ==
  except_Exception("fetching visitor count", tools_get_current_visitors_try(res, now))

RECURSIVE section_lines(_)
section_lines(sections) ==
  IF sections = <<>> THEN <<>>
  ELSE LET section == Head(sections)
       IN  << "**", Get(section, "section", "Unknown"), "**: ",
              Get(section, "total_visitors", "0"), " visitors (",
              Get(section, "records_count", "0"), " records)" >>
           \o section_lines(Tail(sections))

RECURSIVE sum_visitors(_)
sum_visitors(sections) ==
  IF sections = <<>> THEN 0
  ELSE Number(Get(Head(sections), "total_visitors", "0"))
         + sum_visitors(Tail(sections))

\* the try block of tools.get_section_traffic: its text, or the exception raised in it
tools_get_section_traffic_try(res) ==
  IF res.kind = "raise" THEN res
  ELSE LET sections == res.value IN
    IF ~Truthy(sections)
      THEN Returned(<<"No section traffic data available at the moment.">>)
    ELSE IF sections.kind = "dict"
      THEN \* enumerate(sections) yields the keys: section.get on a str
           AttributeError("str", "get")
    ELSE LET total_visitors == sum_visitors(sections.items)
             busiest        == sections.items[1]
             busiest_name   == Get(busiest, "section", "Unknown")
             busiest_count  == Number(Get(busiest, "total_visitors", "0"))
             percentage     == IF total_visitors > 0
                                 THEN Percent1f(busiest_count, total_visitors)
                                 ELSE <<"0", ".", "0", "%">>
         IN  Returned(
             <<"## Section Traffic Analysis">>
             \o section_lines(sections.items)
             \o << "### Summary",
                   "- **Total tracked visitors**: ", ToString(total_visitors),
                   "- **Busiest section**: ", busiest_name, " (" >>
             \o percentage
             \o << " of traffic)",
                   "- **Recommendation**: Consider adding staff to ",
                   busiest_name, " during peak hours." >>)

\* tools.get_section_traffic
tools_get_section_traffic(res) ==
  except_Exception("fetching section traffic", tools_get_section_traffic_try(res))

\* the try block of tools.get_cashier_status: its text, or the exception raised in it
tools_get_cashier_status_try(res, now) ==
  IF res.kind = "raise" THEN res
  ELSE Returned(format_cashier_response(res.value, now))

\* tools.get_cashier_status
tools_get_cashier_status(res, now) ==
  except_Exception("fetching cashier status", tools_get_cashier_status_try(res, now))

\* the try block of tools.get_heatmap_data: its text, or the exception raised in it
tools_get_heatmap_data_try(res) ==
  IF res.kind = "raise" THEN res
  ELSE format_heatmap_response(res.value)

\* tools.get_heatmap_data
tools_get_heatmap_data(res) ==
  except_Exception("fetching heatmap data", tools_get_heatmap_data_try(res))

\* the try block of tools.get_daily_analytics: its text, or the exception raised in it
tools_get_daily_analytics_try(res, now) ==
  IF res.kind = "raise" THEN res
  ELSE LET analytics == res.value IN
    IF ~Truthy(analytics) THEN Returned(<<"Daily analytics are not available yet.">>)
    ELSE IF analytics.kind = "list"
      THEN AttributeError("list", "get")
    ELSE LET total_visitors  == Get(analytics, "total_visitors_today", "0")
             busiest_section == Get(analytics, "busiest_section", "N/A")
             avg_queue       == Get(analytics, "avg_queue_length", "0")
             peak_hour       == Get(analytics, "peak_hour", "N/A")
             timestamp       == Get(analytics, "timestamp", isoformat(now))
             performance     == IF Number(total_visitors) > 100 THEN "Excellent"
                                ELSE IF Number(total_visitors) > 50 THEN "Good"
                                ELSE "Quiet"
         IN  Returned(
             << "## Daily Performance Report",
                "- **Total Visitors Today**: ", total_visitors, " people",
                "- **Performance Rating**: ", performance,
                "- **Busiest Section**: ", busiest_section,
                "- **Average Queue Length**: ", avg_queue, ".0", " people",
                "- **Peak Hour**: ", peak_hour,
                "1. Review staffing for ", busiest_section,
                "2. Monitor cashier queues during ", peak_hour,
                "*Report generated: ", timestamp, "*" >>)

\* tools.get_daily_analytics
tools_get_daily_analytics(res, now) ==
  except_Exception("fetching daily analytics", tools_get_daily_analytics_try(res, now))

\* the try block of tools.get_traffic_forecast: its text, or the exception raised in it
tools_get_traffic_forecast_try(res) ==
  IF res.kind = "raise" THEN res
  ELSE LET forecast == res.value IN
    IF ~Truthy(forecast) \/ ~Contains(forecast, "visitors_forecast")
      THEN Returned(<<"Traffic forecast is not available at the moment.">>)
    ELSE LET visitors_pred  == Get(forecast, "visitors_forecast", PyDict(<<>>))
             queue_pred     == Get(forecast, "queue_forecast", PyDict(<<>>))
             recommendation == Get(forecast, "recommendation",
                                   "No specific recommendation")
         IN  Returned(
             <<"## Traffic Forecast">>
             \o (IF Truthy(visitors_pred)
                   THEN << "### Visitor Prediction (",
                           Get(visitors_pred, "forecast_horizon", "N/A"), ")",
                           "- **Expected visitors**: ",
                           Get(visitors_pred, "predicted_value", "0"),
                           "- **Confidence**: ",
                           Get(visitors_pred, "confidence_level", "0"), "%" >>
                   ELSE <<>>)
             \o (IF Truthy(queue_pred)
                   THEN << "### Queue Prediction",
                           "- **Expected queue length**: ",
                           Get(queue_pred, "predicted_value", "0"), " people",
                           "- **Estimated wait**: ",
                           ToString(Number(Get(queue_pred, "predicted_value", "0")) * 2),
                           " minutes" >>
                   ELSE <<>>)
             \o << "### Recommendation", recommendation,
                   "*Note: Predictions are based on historical patterns*" >>)

\* tools.get_traffic_forecast
tools_get_traffic_forecast(res) ==
  except_Exception("fetching traffic forecast", tools_get_traffic_forecast_try(res))

\* next((s for s in sections if s['section'].lower() == name.lower()), None):
\* the first match, None, or the KeyError of an element without 'section'
RECURSIVE find_section(_, _)
find_section(sections, name) ==
  IF sections = <<>> THEN Returned(PyNone)
  ELSE LET s == Head(sections) IN
       IF ~Contains(s, "section") THEN Raised("KeyError", <<"'section'">>)
       ELSE IF Lower(Get(s, "section", "")) = Lower(name) THEN Returned(s)
       ELSE find_section(Tail(sections), name)

\* the try block of tools.compare_sections: its text, or the exception raised in it
tools_compare_sections_try(section1, section2, res) ==
  IF res.kind = "raise" THEN res
  ELSE LET sections == res.value IN
    IF sections.kind \notin {"dict", "list"}
      THEN \* `for s in sections` on None or a number
           Raised("TypeError",
                  << "'", IF sections.kind = "None" THEN "NoneType"
                          ELSE sections.kind,
                     "' object is not iterable" >>)
    ELSE IF sections.kind = "dict" /\ sections.items # <<>>
      THEN \* the generator yields the keys: s['section'] on a str
           Raised("TypeError", <<"string indices must be integers">>)
    ELSE LET found1 == find_section(sections.items, section1)
             found2 == find_section(sections.items, section2)
         IN
         IF found1.kind = "raise" THEN found1
         ELSE IF found2.kind = "raise" THEN found2
         ELSE LET sec1_data == found1.value
                  sec2_data == found2.value
              IN
              IF ~Truthy(sec1_data) \/ ~Truthy(sec2_data)
                THEN Returned(
                       <<"Could not find data for: ">>
                       \o (IF ~Truthy(sec1_data) THEN <<section1>> ELSE <<>>)
                       \o (IF ~Truthy(sec1_data) /\ ~Truthy(sec2_data)
                             THEN <<", ">> ELSE <<>>)
                       \o (IF ~Truthy(sec2_data) THEN <<section2>> ELSE <<>>))
              ELSE LET sec1_count == Number(Get(sec1_data, "total_visitors", "0"))
                       sec2_count == Number(Get(sec2_data, "total_visitors", "0"))
                       total      == sec1_count + sec2_count
                   IN
                   IF total = 0 THEN Returned(<<"Both sections have zero visitors.">>)
                   ELSE Returned(
                        << "## Section Comparison: ", section1, " vs ", section2,
                           "| **Visitors** | ", ToString(sec1_count), " | ",
                           ToString(sec2_count), " |", "| **Percentage** | " >>
                        \o Percent1f(sec1_count, total) \o <<" | ">>
                        \o Percent1f(sec2_count, total)
                        \o << " |", "| **Records** | ",
                              Get(sec1_data, "records_count", "0"), " | ",
                              Get(sec2_data, "records_count", "0"), " |" >>
                        \o (IF sec1_count > sec2_count
                              THEN << "**", section1, "** has ",
                                      ToString(sec1_count - sec2_count),
                                      " more visitors than **", section2, "**." >>
                            ELSE IF sec2_count > sec1_count
                              THEN << "**", section2, "** has ",
                                      ToString(sec2_count - sec1_count),
                                      " more visitors than **", section1, "**." >>
                            ELSE <<"Both sections have equal visitor traffic.">>))

\* tools.compare_sections
tools_compare_sections(section1, section2, res) ==
  except_Exception("comparing sections", tools_compare_sections_try(section1, section2, res))

\* the StructuredTool names of `tools` and the function each one runs on the
\* outcome res of its api_client call
ToolNames ==
  { "CurrentVisitorCount", "SectionTrafficAnalysis", "CashierQueueStatus",
    "StoreHeatmap", "DailyPerformanceReport", "TrafficForecast",
    "CompareSections" }

tool_result(t, res, now) ==
  CASE t.name = "CurrentVisitorCount"    -> tools_get_current_visitors(res, now)
    [] t.name = "SectionTrafficAnalysis" -> tools_get_section_traffic(res)
    [] t.name = "CashierQueueStatus"     -> tools_get_cashier_status(res, now)
    [] t.name = "StoreHeatmap"           -> tools_get_heatmap_data(res)
    [] t.name = "DailyPerformanceReport" -> tools_get_daily_analytics(res, now)
    [] t.name = "TrafficForecast"        -> tools_get_traffic_forecast(res)
    [] t.name = "CompareSections"
         -> tools_compare_sections(t.section1, t.section2, res)
    [] OTHER -> Returned(NoText)

\* _make_request ends (return or raise) and the operation around it finishes;
\* a tool that made the call turns the outcome into its text.
Finish(mr) ==
  /\ mr_result' = mr
  /\ result' = public_result(op, mr)
  /\ pc' = "done"
  /\ \E now \in Nows :
       LET r == tool_result(tool, public_result(op, mr), now)
       IN  /\ tool_output' = IF r.kind = "return" THEN r.value ELSE NoText
           /\ tool_raised' = IF r.kind = "raise" THEN r ELSE NoResult

\* variant: a call that sets max_retries to 1 on the client for itself
Enter_single_attempt(name, endpoint, params, args) ==
  /\ pc \in {"idle", "done"}
  /\ tool' = NoTool
  /\ tool_output' = NoText
  /\ tool_raised' = NoResult
  /\ op' = name
  /\ call' = [ endpoint |-> endpoint, params |-> params, method |-> "GET",
                args |-> args ]
  /\ pc' = "loop"
  /\ attempt' = 0
  /\ trace' = <<>>
  /\ sent' = <<>>
  /\ sleeps' = <<>>
  /\ elapsed' = 0
  /\ mr_result' = NoResult
  /\ result' = NoResult
  /\ tasks' = NoTasks
  /\ max_retries' = 1
  /\ UNCHANGED << agent_vars, base_url, timeout, requests_json_error, session,
                  session_count >>

\* A public operation, called by tool t or directly, enters
\* _make_request(endpoint, params).
EnterFrom(t, name, endpoint, params, args) ==
  /\ pc \in {"idle", "done"}
  /\ tool' = t
  /\ tool_output' = NoText
  /\ tool_raised' = NoResult
  /\ op' = name
  /\ call' = [ endpoint |-> endpoint, params |-> params, method |-> "GET",
                args |-> args ]
  /\ pc' = "loop"
  /\ attempt' = 0
  /\ trace' = <<>>
  /\ sent' = <<>>
  /\ sleeps' = <<>>
  /\ elapsed' = 0
  /\ mr_result' = NoResult
  /\ result' = NoResult
  /\ tasks' = NoTasks
  /\ UNCHANGED << agent_vars, config, session, session_count >>

\* A public operation called directly on api_client.
Enter(name, endpoint, params, args) ==
  EnterFrom(NoTool, name, endpoint, params, args)

\* variant: the final-attempt test is off by one
final_attempt_off_by_one(k) == k = max_retries - 2

\* `attempt == self.max_retries - 1`: the handler raises instead of retrying
final_attempt(k) == k = max_retries - 1

\* the argument of asyncio.sleep in both handlers: 1 * (attempt + 1)
BASE_DELAY == 1
backoff_delay(k) == BASE_DELAY * (k + 1)

\* the request as put on the wire: url = f"{self.base_url}{endpoint}"
Request(c) ==
  [ url |-> <<base_url>> \o c.endpoint, params |-> c.params, method |-> c.method,
    via |-> <<"requests.Session", session_creations>> ]

\* One iteration of `for attempt in range(self.max_retries)`.
\* variant: the loop admits one value more than range(max_retries)
in_range_inclusive(a) == a <= max_retries

\* `for attempt in range(self.max_retries)`: the loop has a value for attempt
in_range(a) == a < max_retries

make_request_attempt ==
  /\ pc = "loop"
  /\ in_range(attempt)
  /\ \E o \in Transport :
       LET r   == try_request(o)
           end == elapsed + Duration(o)
           co  == asyncio_sleep(backoff_delay(attempt))
           cls == OutcomeClass(r)
       IN
       /\ session' = session_property
       /\ session_count' = session_creations
       /\ sent' = Append(sent, Request(call))
       /\ trace' = Append(trace, [ class  |-> cls,
                                   status |-> o.status,
                                   body   |-> IF cls = "ok" THEN o.body ELSE "",
                                   start  |-> elapsed,
                                   end    |-> end ])
       /\ IF r.kind = "return"
            THEN \* return response.json()
                 /\ Finish(r)
                 /\ elapsed' = end
                 /\ UNCHANGED << attempt, sleeps >>
          ELSE IF (IsTimeout(r.class) \/ IsRequestException(r.class))
                  /\ final_attempt(attempt)
            THEN \* raise Exception(...) from the handler of the last attempt
                 /\ Finish(Raised("Exception",
                                  IF IsTimeout(r.class)
                                    THEN TimedOutMessage(call.endpoint)
                                    ELSE FailedMessage(call.endpoint, r)))
                 /\ elapsed' = end
                 /\ UNCHANGED << attempt, sleeps >>
          ELSE IF IsTimeout(r.class) \/ IsRequestException(r.class)
            THEN \* asyncio.sleep(1 * (attempt + 1)), then the next iteration
                 /\ sleeps' = Append(sleeps, co)
                 /\ elapsed' = end + Blocks(co)
                 /\ attempt' = attempt + 1
                 /\ UNCHANGED << pc, mr_result, result, tool_output, tool_raised >>
          ELSE \* no handler matches: the exception leaves _make_request
                 /\ Finish(r)
                 /\ elapsed' = end
                 /\ UNCHANGED << attempt, sleeps >>
  /\ UNCHANGED << agent_vars, config, op, call, tasks, tool >>

\* The loop ends without a return or a raise: `return None`.
make_request_exhausted ==
  /\ pc = "loop"
  /\ ~in_range(attempt)
  /\ Finish(Returned(PyNone))
  /\ UNCHANGED << agent_vars, config, session, session_count, op, call, attempt, trace, sent, sleeps,
                  elapsed, tasks, tool >>

\* --------------------------------------------------------- public operations
\* api_client._make_request(endpoint) as called by test_connection
make_request_direct ==
  \E e \in { API_ENDPOINTS.health, API_ENDPOINTS.visitors_current,
             API_ENDPOINTS.cashier_current, API_ENDPOINTS.heatmap } :
    Enter("_make_request", <<e>>, PyNone, NoArgs)

check_backend_health == Enter("check_backend_health", <<API_ENDPOINTS.health>>, PyNone, NoArgs)

get_current_visitors ==
  Enter("get_current_visitors", <<API_ENDPOINTS.visitors_current>>, PyNone, NoArgs)

get_section_traffic ==
  Enter("get_section_traffic", <<API_ENDPOINTS.visitors_sections>>, PyNone, NoArgs)

get_daily_analytics ==
  Enter("get_daily_analytics", <<API_ENDPOINTS.daily_analytics>>, PyNone, NoArgs)

\* variant: timedelta(hours) -- the positional argument of timedelta is days
visitor_trend_params_days(now, hours) ==
  LET end_time   == now
      start_time == datetime_sub(end_time, [days |-> hours, seconds |-> 0])
  IN  [ kind |-> "dict",
        end_time   |-> isoformat(end_time),
        start_time |-> isoformat(start_time) ]

\* the params of get_visitor_trend, computed once before _make_request
visitor_trend_params(now, hours) ==
  LET end_time   == now
      start_time == datetime_sub(end_time, timedelta(hours))
  IN  [ kind |-> "dict",
        end_time   |-> isoformat(end_time),
        start_time |-> isoformat(start_time) ]

get_visitor_trend ==
  \E hours \in Hours, now \in Nows :
    Enter("get_visitor_trend", <<"/api/visitors/range">>,
          visitor_trend_params(now, hours), [hours |-> hours])

get_cashier_status ==
  Enter("get_cashier_status", <<API_ENDPOINTS.cashier_current>>, PyNone, NoArgs)

\* variant: the endpoint without the hours query string
queue_history_endpoint_bare(hours) == <<API_ENDPOINTS.cashier_history>>

\* f"{settings.API_ENDPOINTS['cashier_history']}?hours={hours}"
queue_history_endpoint(hours) ==
  <<API_ENDPOINTS.cashier_history, "?hours=", ToString(hours)>>

get_queue_history ==
  \E hours \in Hours :
    Enter("get_queue_history", queue_history_endpoint(hours), PyNone,
          [hours |-> hours])

get_wait_time ==
  Enter("get_wait_time", <<API_ENDPOINTS.cashier_wait_time>>, PyNone, NoArgs)

get_heatmap_data ==
  Enter("get_heatmap_data", <<API_ENDPOINTS.heatmap>>, PyNone, NoArgs)

get_density_analysis ==
  Enter("get_density_analysis", <<API_ENDPOINTS.heatmap, "analysis">>, PyNone, NoArgs)

get_predictions ==
  Enter("get_predictions", <<API_ENDPOINTS.predictions>>, PyNone, NoArgs)

get_traffic_forecast ==
  Enter("get_traffic_forecast",
        <<API_ENDPOINTS.predictions, "traffic/forecast">>, PyNone, NoArgs)

get_metric_prediction ==
  \E metric_type \in {"visitors", "queue"}, horizon \in {"4h", "1d"} :
    Enter("get_metric_prediction",
          <<API_ENDPOINTS.predictions, "metric/", metric_type,
            "?horizon=", horizon>>, PyNone, NoArgs)

\* ------------------------------------------------------- the tools of tools.py
\* Each tool calls one wrapper of api_client and renders what comes back.
Tool(name) == [NoTool EXCEPT !.name = name]

\* the section names compare_sections is asked about
SectionNames == {"a", "B"}

CurrentVisitorCount ==
  EnterFrom(Tool("CurrentVisitorCount"), "get_current_visitors",
            <<API_ENDPOINTS.visitors_current>>, PyNone, NoArgs)

SectionTrafficAnalysis ==
  EnterFrom(Tool("SectionTrafficAnalysis"), "get_section_traffic",
            <<API_ENDPOINTS.visitors_sections>>, PyNone, NoArgs)

CashierQueueStatus ==
  EnterFrom(Tool("CashierQueueStatus"), "get_cashier_status",
            <<API_ENDPOINTS.cashier_current>>, PyNone, NoArgs)

StoreHeatmap ==
  EnterFrom(Tool("StoreHeatmap"), "get_heatmap_data",
            <<API_ENDPOINTS.heatmap>>, PyNone, NoArgs)

DailyPerformanceReport ==
  EnterFrom(Tool("DailyPerformanceReport"), "get_daily_analytics",
            <<API_ENDPOINTS.daily_analytics>>, PyNone, NoArgs)

TrafficForecast ==
  EnterFrom(Tool("TrafficForecast"), "get_traffic_forecast",
            <<API_ENDPOINTS.predictions, "traffic/forecast">>, PyNone, NoArgs)

CompareSections ==
  \E section1 \in SectionNames, section2 \in SectionNames :
    EnterFrom([ name |-> "CompareSections", section1 |-> section1,
                section2 |-> section2 ],
              "get_section_traffic", <<API_ENDPOINTS.visitors_sections>>,
              PyNone, NoArgs)

\* -------------------------------------------------------- get_multiple_metrics
batch_endpoints ==
  << API_ENDPOINTS.visitors_current, API_ENDPOINTS.cashier_current,
     API_ENDPOINTS.heatmap >>

\* tasks = [self._make_async_request(endpoint) for endpoint in endpoints]
get_multiple_metrics ==
  /\ pc \in {"idle", "done"}
  /\ op' = "get_multiple_metrics"
  /\ pc' = "gather"
  /\ tasks' = [ i \in 1 .. 3 |->
                [ endpoint |-> <<batch_endpoints[i]>>, state |-> "created",
                  outcome |-> "none", body |-> "", order |-> 0,
                  result |-> NoResult ] ]
  /\ call' = NoCall
  /\ tool' = NoTool
  /\ tool_output' = NoText
  /\ tool_raised' = NoResult
  /\ attempt' = 0
  /\ trace' = <<>>
  /\ sent' = <<>>
  /\ sleeps' = <<>>
  /\ elapsed' = 0
  /\ mr_result' = NoResult
  /\ result' = NoResult
  /\ UNCHANGED << agent_vars, config, session, session_count >>

\* variant: the coroutines are awaited one after the other
runnable_sequential(i, step) ==
  IF step = "send" THEN \A j \in 1 .. (i - 1) : tasks[j].state = "done"
  ELSE TRUE

\* asyncio.gather wraps the three coroutines in tasks, which the event loop
\* steps in the order they were passed: each runs up to its first await on the
\* network before a response of any of them is delivered.
runnable(i, step) ==
  IF step = "send" THEN \A j \in 1 .. (i - 1) : tasks[j].state # "created"
  ELSE \A j \in 1 .. 3 : tasks[j].state # "created"

\* number of coroutines that have finished
Completed == Cardinality({j \in 1 .. 3 : tasks[j].state = "done"})

\* the request of coroutine i, sent through the httpx.AsyncClient that the
\* coroutine opens for itself (`async with httpx.AsyncClient(...) as client`)
AsyncRequest(i) ==
  [ url |-> <<base_url>> \o tasks[i].endpoint, params |-> PyNone,
    method |-> "GET", via |-> <<"httpx.AsyncClient", i>> ]

\* _make_async_request up to `await client.get(url, params=params)`.
async_request_send(i) ==
  /\ pc = "gather"
  /\ tasks[i].state = "created"
  /\ runnable(i, "send")
  /\ tasks' = [tasks EXCEPT ![i].state = "inflight"]
  /\ sent' = Append(sent, AsyncRequest(i))
  /\ UNCHANGED << agent_vars, config, session, session_count, pc, op, call, attempt, trace, sleeps,
                  elapsed, mr_result, result, tool, tool_output, tool_raised >>

\* the value _make_async_request returns for what the transport produced:
\* response.json(), or None from `except Exception`
async_request_result(o) ==
  IF try_request(o).kind = "return" THEN try_request(o).value ELSE PyNone

\* The awaited response (or error) of task i arrives; the coroutine finishes.
async_request_complete(i) ==
  /\ pc = "gather"
  /\ tasks[i].state = "inflight"
  /\ runnable(i, "complete")
  /\ \E o \in Transport :
       tasks' = [tasks EXCEPT ![i].state = "done",
                              ![i].order = Completed + 1,
                              ![i].outcome = OutcomeClass(try_request(o)),
                              ![i].body = IF try_request(o).kind = "return"
                                            THEN o.body ELSE "",
                              ![i].result = Returned(async_request_result(o))]
  /\ UNCHANGED << agent_vars, config, session, session_count, pc, op, call, attempt, trace, sent, sleeps,
                  elapsed, mr_result, result, tool, tool_output, tool_raised >>

\* variant: the results are taken in another order than the endpoints
batch_result_misordered(results) ==
  [ kind     |-> "dict",
    visitors |-> results[1],
    cashier  |-> results[3],
    heatmap  |-> results[2] ]

\* the dict built from the list asyncio.gather returns
batch_result(results) ==
  [ kind     |-> "dict",
    visitors |-> results[1],
    cashier  |-> results[2],
    heatmap  |-> results[3] ]

\* variant: the results are listed in the order the coroutines finished
gather_results_as_completed ==
  [ k \in 1 .. 3 |->
      (CHOOSE t \in { tasks[j] : j \in 1 .. 3 } : t.order = k).result.value ]

\* the list asyncio.gather returns: one result per awaitable, in the order
\* the awaitables were passed
gather_results == [ i \in 1 .. 3 |-> tasks[i].result.value ]

\* results = await asyncio.gather(*tasks); return {...}
gather_return ==
  /\ pc = "gather"
  /\ \A i \in 1 .. 3 : tasks[i].state = "done"
  /\ result' = Returned(batch_result(gather_results))
  /\ pc' = "done"
  /\ UNCHANGED << agent_vars, config, session, session_count, op, call, attempt, trace, sent, sleeps,
                  elapsed, mr_result, tasks, tool, tool_output, tool_raised >>

\* ------------------------------------------------------------ specification
Next ==
  \/ make_request_attempt
  \/ make_request_exhausted
  \/ make_request_direct
  \/ check_backend_health
  \/ get_current_visitors
  \/ get_section_traffic
  \/ get_daily_analytics
  \/ get_visitor_trend
  \/ get_cashier_status
  \/ get_queue_history
  \/ get_wait_time
  \/ get_heatmap_data
  \/ get_density_analysis
  \/ get_predictions
  \/ get_traffic_forecast
  \/ get_metric_prediction
  \/ CurrentVisitorCount
  \/ SectionTrafficAnalysis
  \/ CashierQueueStatus
  \/ StoreHeatmap
  \/ DailyPerformanceReport
  \/ TrafficForecast
  \/ CompareSections
  \/ get_multiple_metrics
  \/ \E i \in 1 .. 3 : async_request_send(i)
  \/ \E i \in 1 .. 3 : async_request_complete(i)
  \/ gather_return

Spec == Init /\ [][Next]_vars

\* _make_request runs in the caller's thread: once entered, its loop keeps
\* stepping, and every request ends (a response, an error, or the timeout).
FairSpec ==
  Spec /\ WF_vars(make_request_attempt) /\ WF_vars(make_request_exhausted)

\* =============================================================== agents.py
\* what os.getenv gives for an API key: unset, empty, a key the provider
\* accepts, a key it rejects
KeyValues == { PyNone, PyStr(""), PyStr("sk-valid"), PyStr("sk-revoked") }
LongQuery == "how many visitors ... (501 characters)"
Queries ==
  { "", "how busy is the store?", "compare a and B", "drop table visitors",
    "hello there", LongQuery }

ChatOpenAI(provider, key, base) ==
  [ kind |-> "ChatOpenAI", provider |-> provider, model |-> MODEL_NAME,
    openai_api_key |-> key, openai_api_base |-> base ]

\* variant: only the key of the selected provider is considered
initialize_llm_strict(use_openrouter, s) ==
  IF use_openrouter
    THEN IF Truthy(s.OPENROUTER_API_KEY)
           THEN Returned(ChatOpenAI("OpenRouter", s.OPENROUTER_API_KEY,
                                    OPENROUTER_BASE_URL))
           ELSE Raised("ValueError", <<"No API key provided for LLM">>)
  ELSE IF Truthy(s.OPENAI_API_KEY)
    THEN Returned(ChatOpenAI("OpenAI", s.OPENAI_API_KEY, "default"))
  ELSE Raised("ValueError", <<"No API key provided for LLM">>)

\* RetailAgent._initialize_llm
initialize_llm(use_openrouter, s) ==
  IF use_openrouter /\ Truthy(s.OPENROUTER_API_KEY)
    THEN Returned(ChatOpenAI("OpenRouter", s.OPENROUTER_API_KEY,
                             OPENROUTER_BASE_URL))
  ELSE IF Truthy(s.OPENAI_API_KEY)
    THEN Returned(ChatOpenAI("OpenAI", s.OPENAI_API_KEY, "default"))
  ELSE Raised("ValueError", <<"No API key provided for LLM">>)

\* RetailAgent.__init__(use_openrouter): the module-level construction, and
\* the class constructed with the flag set
RetailAgent_init ==
  /\ agent.state = "unconstructed"
  /\ \E use_openrouter \in BOOLEAN :
       LET llm == initialize_llm(use_openrouter, settings)
       IN  agent' =
             IF llm.kind = "raise"
               THEN [agent EXCEPT !.state = "raised",
                                  !.constructions = @ + 1,
                                  !.use_openrouter = use_openrouter,
                                  !.error = llm]
               ELSE [agent EXCEPT !.state = "constructed",
                                  !.constructions = @ + 1,
                                  !.use_openrouter = use_openrouter,
                                  !.llm = llm.value]
  /\ UNCHANGED << settings, app_vars, client_vars >>

\* RetailAgent.initialize_executor, called by app.initialize_agent
initialize_executor ==
  /\ agent.state = "constructed"
  /\ agent.agent_executor = "None"
  /\ agent' = [agent EXCEPT !.agent_executor = "AgentExecutor"]
  /\ UNCHANGED << settings, app_vars, client_vars >>

\* the names bound in the module namespace of agents.py
AgentsGlobals ==
  { "List", "Dict", "Any", "AgentExecutor", "create_structured_chat_agent",
    "ConversationBufferMemory", "MessagesPlaceholder", "ChatPromptTemplate",
    "SystemMessagePromptTemplate", "HumanMessagePromptTemplate", "ChatOpenAI",
    "settings", "tools", "SYSTEM_PROMPT", "RetailAgent", "agent" }

\* datetime.now().isoformat() evaluated in agents.py
agents_datetime_now(now) ==
  IF "datetime" \in AgentsGlobals THEN Returned(isoformat(now))
  ELSE Raised("NameError", <<"name 'datetime' is not defined">>)

\* what `await self.agent_executor.ainvoke(...)` can end with: a result with
\* an output, a result without one, an exception of the LLM call; a key the
\* provider rejects leaves only the exception
ExecutorOutcomes(llm) ==
  { Raised("AuthenticationError", <<"Incorrect API key provided">>) }
  \cup (IF llm.openai_api_key = PyStr("sk-valid")
          THEN { Returned(PyDict(<< <<"output", "42 visitors are in the store.">> >>)),
                 Returned(PyDict(<<>>)) }
          ELSE {})

\* the try block of process_query after ainvoke ended with `invoked`
process_query_try(query, invoked, now) ==
  IF invoked.kind = "raise" THEN invoked
  ELSE LET timestamp == agents_datetime_now(now) IN
       IF timestamp.kind = "raise" THEN timestamp
       ELSE Returned([ kind |-> "dict", query |-> query,
                       response |-> <<Get(invoked.value, "output",
                                          "No response generated")>>,
                       error |-> FALSE, timestamp |-> timestamp.value ])

\* `except Exception as e:` of process_query, building the error result
process_query_except(query, e, now) ==
  LET timestamp == agents_datetime_now(now) IN
  IF timestamp.kind = "raise" THEN timestamp
  ELSE Returned([ kind |-> "dict", query |-> query,
                  response |-> <<"Sorry, I encountered an error: ">> \o e.msg,
                  error |-> TRUE, timestamp |-> timestamp.value ])

\* what process_query(query) hands to its caller: a result, or an exception
process_query_result(query, invoked, now) ==
  LET r == process_query_try(query, invoked, now)
  IN  IF r.kind = "raise" THEN process_query_except(query, r, now) ELSE r

\* the agent after process_query(query): the executor exists, the call ended
process_query_agent(query, invoked, now) ==
  [agent EXCEPT !.agent_executor = "AgentExecutor",
                !.query = query,
                !.executor_outcome = invoked,
                !.response = process_query_result(query, invoked, now)]

\* RetailAgent.process_query(query), called on the agent directly
process_query ==
  /\ agent.state = "constructed"
  /\ \E query \in Queries, invoked \in ExecutorOutcomes(agent.llm), now \in Nows :
       agent' = process_query_agent(query, invoked, now)
  /\ UNCHANGED << settings, app_vars, client_vars >>

\* ====================================== utils/validators.py and app.py
\* len(query) and len(query.strip()) of the queries in use
Length(query) ==
  CASE query = "" -> 0
    [] query = "how busy is the store?" -> 22
    [] query = "compare a and B" -> 15
    [] query = "drop table visitors" -> 19
    [] query = "hello there" -> 11
    [] query = LongQuery -> MAX_QUERY_LENGTH + 1
StrippedLength(query) == Length(query)

\* re.search(pattern, query, re.IGNORECASE) for one of harmful_patterns
MatchesHarmful(query) == query = "drop table visitors"

\* any(keyword in query_lower for keyword in retail_keywords)
HasRetailKeyword(query) ==
  query \in { "how busy is the store?", "compare a and B",
              "drop table visitors", LongQuery }

validate_query(query) ==
  IF MatchesHarmful(query)
    THEN [valid |-> FALSE, msg |-> "Query contains potentially harmful content"]
  ELSE IF StrippedLength(query) < MIN_QUERY_LENGTH
    THEN [valid |-> FALSE, msg |-> "Query is too short"]
  ELSE IF Length(query) > MAX_QUERY_LENGTH
    THEN [valid |-> FALSE, msg |-> "Query is too long (max 500 characters)"]
  ELSE IF ~HasRetailKeyword(query)
    THEN [valid |-> FALSE,
          msg |-> "Query doesn't appear to be about retail analytics"]
  ELSE [valid |-> TRUE, msg |-> "None"]

user_message(query) == [role |-> "user", content |-> <<query>>, error |-> FALSE]

\* variant: process_user_query without its try / except around the agent
agent_reply_unhandled(messages, r) ==
  IF r.kind = "raise" THEN messages
  ELSE Append(messages, [ role |-> "assistant",
                          content |-> r.value.response, error |-> FALSE ])

\* the messages after `response = await agent.process_query(query)` ended
\* with r: the bot response, or the error response of the except clause
agent_reply(messages, r) ==
  IF r.kind = "raise"
    THEN Append(messages, [ role |-> "assistant",
                            content |-> <<"Error processing query: ">> \o r.msg,
                            error |-> TRUE ])
    ELSE Append(messages, [ role |-> "assistant",
                            content |-> r.value.response, error |-> FALSE ])

\* the first run of main() in a session: initialize_agent()
page_load ==
  /\ agent.state = "constructed"
  /\ ~session_state.agent_initialized
  /\ agent' = [agent EXCEPT !.agent_executor = "AgentExecutor"]
  /\ session_state' = [session_state EXCEPT !.agent_initialized = TRUE]
  /\ ui' = [NoEvent EXCEPT !.event = "load"]
  /\ UNCHANGED << settings, client_vars >>

\* process_user_query(query), for the chat input and the follow-up buttons
process_user_query ==
  /\ session_state.agent_initialized
  /\ \E query \in Queries :
       LET checked == validate_query(query) IN
       IF ~checked.valid
         THEN /\ ui' = [ event |-> "query", query |-> query,
                         error |-> <<"Invalid query: ", checked.msg>> ]
              /\ UNCHANGED << agent, session_state >>
         ELSE /\ Len(session_state.messages) + 2 <= MaxMessages
              /\ \E invoked \in ExecutorOutcomes(agent.llm), now \in Nows :
                   /\ agent' = process_query_agent(query, invoked, now)
                   /\ session_state' =
                        [session_state EXCEPT !.messages =
                           agent_reply(Append(@, user_message(query)),
                                       process_query_result(query, invoked, now))]
              /\ ui' = [event |-> "query", query |-> query, error |-> NoText]
  /\ UNCHANGED << settings, client_vars >>

\* the Reset Chat button: messages = [], agent.clear_memory()
reset_chat ==
  /\ session_state.agent_initialized
  /\ session_state' = [session_state EXCEPT !.messages = <<>>]
  /\ ui' = [NoEvent EXCEPT !.event = "reset"]
  /\ UNCHANGED << settings, agent, client_vars >>

AppNext ==
  \/ RetailAgent_init
  \/ page_load
  \/ process_user_query
  \/ reset_chat

AgentInit ==
  /\ base_url = BACKEND_API_URL
  /\ timeout = REQUEST_TIMEOUT
  /\ max_retries = DEFAULT_MAX_RETRIES
  /\ session = "None"
  /\ session_count = 0
  /\ tool = NoTool
  /\ tool_output = NoText
  /\ tool_raised = NoResult
  /\ requests_json_error = "RequestException"
  /\ pc = "idle"
  /\ op = "none"
  /\ call = NoCall
  /\ attempt = 0
  /\ trace = <<>>
  /\ sent = <<>>
  /\ sleeps = <<>>
  /\ elapsed = 0
  /\ mr_result = NoResult
  /\ result = NoResult
  /\ tasks = NoTasks
  /\ settings \in [ OPENAI_API_KEY : KeyValues, OPENROUTER_API_KEY : KeyValues ]
  /\ agent = Unconstructed
  /\ session_state = NoSession
  /\ ui = NoEvent

AgentNext ==
  \/ RetailAgent_init
  \/ initialize_executor
  \/ process_query

AgentSpec == AgentInit /\ [][AgentNext]_vars

AppSpec == AgentInit /\ [][AppNext]_vars

\* ================================================================== claims
SyncOp == op \notin {"none", "get_multiple_metrics"}
TransportFailures == {"Timeout", "ConnectionError", "HTTPError"}
\* every attempt made so far in this call failed at the transport
EveryAttemptFailed ==
  \A k \in DOMAIN trace : trace[k].class \in TransportFailures
TerminalError == mr_result.kind = "raise" /\ mr_result.class = "Exception"

\* C1: with max_retries = N >= 1, a call of _make_request whose every attempt
\* fails at the transport (timeout, connection error, HTTP 4xx/5xx) makes
\* exactly N attempts and then raises the terminal error: it has not ended
\* before the N-th attempt, and no call ever makes an (N+1)-th attempt.
C1_ExactlyNAttempts ==
  (SyncOp /\ max_retries >= 1 /\ EveryAttemptFailed) =>
     /\ Len(trace) <= max_retries
     /\ Len(sent) = Len(trace)
     /\ Len(trace) < max_retries => (pc = "loop" /\ mr_result = NoResult)
     /\ Len(trace) = max_retries => (pc = "done" /\ TerminalError)

C1_Witness ==
  /\ pc = "done"
  /\ op = "_make_request"
  /\ max_retries = 3
  /\ Len(trace) = 3
  /\ trace[1].class = "Timeout"
  /\ trace[2].class = "HTTPError"
  /\ trace[3].class = "ConnectionError"
  /\ TerminalError

\* C2: every named wrapper other than check_backend_health, on a transport
\* that fails every attempt, returns its empty default ({} or []) and lets no
\* exception escape.
C2_WrapperReturnsDefault ==
  (pc = "done" /\ op \in Wrappers /\ trace # <<>> /\ EveryAttemptFailed) =>
     result = Returned(Default(op))

\* C3: check_backend_health, when every attempt fails (unreachable host,
\* timeout, HTTP error) on a client with max_retries >= 1, does not raise and
\* returns {"status": "unhealthy", "error": <non-empty string>}.
C3_HealthUnhealthy ==
  (pc = "done" /\ op = "check_backend_health" /\ max_retries >= 1
     /\ EveryAttemptFailed) =>
     /\ result.kind = "return"
     /\ result.value.kind = "dict"
     /\ DOMAIN result.value = {"kind", "status", "error"}
     /\ result.value.status = "unhealthy"
     /\ NonEmptyStr(result.value.error)

C3_Witness ==
  /\ pc = "done"
  /\ op = "check_backend_health"
  /\ max_retries = 2
  /\ Len(trace) = 2
  /\ trace[2].class = "ConnectionError"
  /\ result.kind = "return"
  /\ "status" \in DOMAIN result.value
  /\ result.value.status = "unhealthy"
  /\ result.value.error = <<"Failed to call ", "/health", ": ", "">>

\* C4: in get_multiple_metrics each slot is resolved from its own fetch alone:
\* for every subset of failing fetches the call returns (it does not raise),
\* the slot of a failing fetch holds the failure marker None and every other
\* slot holds the payload its own fetch returned.
SlotValue(i) ==
  CASE i = 1 -> result.value.visitors
    [] i = 2 -> result.value.cashier
    [] i = 3 -> result.value.heatmap

LastOk == trace # <<>> /\ trace[Len(trace)].class = "ok"
Payload == json_loads(trace[Len(trace)].body)

\* C5 (as stated): for every payload of a successful response, the wrapper
\* that fetched it returns exactly that decoded value, also when the payload
\* is empty or of another container type than the wrapper's default.
C5_PayloadUnmodified ==
  (pc = "done" /\ op \in Wrappers /\ LastOk) => result = Returned(Payload)

\* C5 (amended): the wrapper returns a truthy decoded payload unmodified, and
\* returns its own typed empty default in place of a falsy payload (null, 0,
\* an empty object or array).
C5_TruthyPayloadUnmodified ==
  (pc = "done" /\ op \in Wrappers /\ LastOk) =>
     result = Returned(IF Truthy(Payload) THEN Payload ELSE Default(op))

C5_Witness ==
  /\ pc = "done"
  /\ op = "get_current_visitors"
  /\ LastOk
  /\ Len(trace) = 2
  /\ Payload = PyDict(<< <<"current_visitors", "42">>,
                         <<"timestamp", "2024-01-01T00:00:00">> >>)
  /\ result = Returned(Payload)

\* C6: for every positive hours h, every request of get_visitor_trend carries
\* start_time and end_time with start_time exactly h hours before end_time
\* and start_time < end_time, the same pair on every attempt of the call.
C6_TrendWindow ==
  (op = "get_visitor_trend" /\ call.args.hours > 0) =>
     \A k \in DOMAIN sent :
        /\ sent[k].params = sent[1].params
        /\ LET start_time == fromisoformat(sent[k].params.start_time)
               end_time   == fromisoformat(sent[k].params.end_time)
           IN  /\ Ordinal(end_time) - Ordinal(start_time)
                    = call.args.hours * SECONDS_PER_HOUR
               /\ Ordinal(start_time) < Ordinal(end_time)
               /\ start_time.second \in 0 .. (SECONDS_PER_DAY - 1)

C6_Witness ==
  /\ op = "get_visitor_trend"
  /\ call.args.hours = DEFAULT_HOURS
  /\ Len(sent) = 2
  /\ trace[1].class = "Timeout"
  /\ fromisoformat(sent[2].params.end_time) = datetime(1, 9015)
  /\ fromisoformat(sent[2].params.start_time) = datetime(0, 73815)

\* C7: after failed attempt k (numbered from 1) with attempts remaining, the
\* client waits base_delay * k before it starts attempt k+1.
C7_BackoffElapses ==
  SyncOp =>
    \A k \in 1 .. (Len(trace) - 1) :
       trace[k + 1].start >= trace[k].end + BASE_DELAY * k

\* C8: no client operates with max_retries < 1, and every fetch makes at
\* least one request attempt.
C8_AtLeastOneAttempt ==
  (pc = "done" /\ SyncOp) => (max_retries >= 1 /\ Len(sent) >= 1)

\* C9: no public operation returns None to its caller: not as the value of a
\* wrapper or of check_backend_health, and not in a slot of
\* get_multiple_metrics (stated here for clients with max_retries >= 1, so
\* that a violation does not rest on the unvalidated max_retries of C8).
C9_NeverNone ==
  (pc = "done" /\ max_retries >= 1 /\ op # "_make_request"
     /\ result.kind = "return") =>
     /\ result.value # PyNone
     /\ op = "get_multiple_metrics" => \A i \in 1 .. 3 : SlotValue(i) # PyNone

\* C10: a response with a 4xx or 5xx status is a failed attempt of
\* _make_request, never a result: it is followed by another attempt while
\* attempts remain, and by the terminal error when it was the last one.
C10_HttpErrorIsFailure ==
  SyncOp =>
    /\ \A k \in DOMAIN trace :
         trace[k].status >= 400 =>
            /\ trace[k].class = "HTTPError"
            /\ (k < max_retries /\ k = Len(trace)) =>
                  (pc = "loop" /\ attempt = k /\ mr_result = NoResult)
            /\ (k = max_retries) =>
                  (pc = "done" /\ TerminalError
                   /\ mr_result.msg[1] = "Failed to call ")
    /\ (mr_result.kind = "return" /\ trace # <<>>) =>
          trace[Len(trace)].status \in 200 .. 299

C10_Witness ==
  /\ pc = "done"
  /\ SyncOp
  /\ max_retries = 2
  /\ Len(trace) = 2
  /\ trace[1].status = 500
  /\ trace[2].status = 404
  /\ TerminalError

InMessage(part) == \E i \in DOMAIN mr_result.msg : mr_result.msg[i] = part

C12_TerminalErrorCarriesContext ==
  (SyncOp /\ pc = "done" /\ TerminalError) =>
     /\ \A j \in DOMAIN call.endpoint : InMessage(call.endpoint[j])
     /\ InMessage(ToString(max_retries))
     /\ op = "_make_request" => result = mr_result

\* C13: one call of get_multiple_metrics sends exactly one request to each of
\* visitors_current, cashier_current and heatmap, a failed request is not
\* sent again, and all three requests are on the wire before the response of
\* any of them has been taken.
BatchUrl(i) == <<base_url, batch_endpoints[i]>>

C13_OneRequestEachConcurrent ==
  op = "get_multiple_metrics" =>
     /\ Len(sent) <= 3
     /\ \A k \in DOMAIN sent : sent[k].url = BatchUrl(k)
     /\ Len(sent) = Cardinality({j \in 1 .. 3 : tasks[j].state # "created"})
     /\ (\E i \in 1 .. 3 : tasks[i].state = "done") => Len(sent) = 3
     /\ pc = "done" => Len(sent) = 3

C13_Witness ==
  /\ op = "get_multiple_metrics"
  /\ pc = "done"
  /\ Len(sent) = 3
  /\ tasks[1].outcome = "Timeout"
  /\ tasks[2].outcome = "HTTPError"
  /\ tasks[3].outcome = "ConnectionError"

\* C14: get_multiple_metrics returns only when all three fetches have
\* resolved, whatever the order in which they complete, and the slot each
\* result lands in is fixed by its endpoint, not by the completion order.
C14_AllResolvedAnyOrder ==
  op = "get_multiple_metrics" =>
     /\ pc = "gather" => result = NoResult
     /\ pc = "done" =>
          /\ \A i \in 1 .. 3 : tasks[i].state = "done"
          /\ { tasks[i].order : i \in 1 .. 3 } = 1 .. 3
          /\ \A i \in 1 .. 3 : SlotValue(i) = tasks[i].result.value

C14_Witness ==
  /\ op = "get_multiple_metrics"
  /\ pc = "done"
  /\ tasks[3].order = 1
  /\ tasks[1].order = 2
  /\ tasks[2].order = 3
  /\ Truthy(result.value.visitors)
  /\ result.value.cashier = PyNone
  /\ Truthy(result.value.heatmap)
  /\ result.value.heatmap # result.value.visitors

\* transport objects this client has built: Sessions, and the AsyncClients
\* of the batch fetch in progress
TransportsBuilt ==
  session_count + (IF op = "get_multiple_metrics" THEN Len(sent) ELSE 0)

\* C15 (as stated): no transport exists after construction, at most one
\* transport object is ever created, and every request of every call,
\* synchronous or batch, goes through that one object.
C15_OneSharedTransport ==
  /\ pc = "idle" => session = "None"
  /\ TransportsBuilt <= 1
  /\ \A k \in DOMAIN sent : sent[k].via = <<"requests.Session", 1>>

\* C15 (amended): the requests.Session is created by the first synchronous
\* request, never at construction, at most once, and every request of every
\* synchronous call goes through it; the batch fetch does not use it: each of
\* its three requests goes through an httpx.AsyncClient of its own.
C15_LazySessionSyncOnly ==
  /\ pc = "idle" => session = "None"
  /\ (session = "None") <=> (session_count = 0)
  /\ session_count <= 1
  /\ SyncOp => /\ \A k \in DOMAIN sent : sent[k].via = <<"requests.Session", 1>>
               /\ sent # <<>> => session = "Session"
  /\ op = "get_multiple_metrics" =>
        \A k \in DOMAIN sent : sent[k].via = <<"httpx.AsyncClient", k>>

C15_Witness ==
  /\ op = "get_multiple_metrics"
  /\ pc = "done"
  /\ session = "Session"
  /\ session_count = 1
  /\ Len(sent) = 3
  /\ sent[3].via = <<"httpx.AsyncClient", 3>>

\* C16 (as stated): for every positive hours h, every request of
\* get_queue_history goes to the cashier-history endpoint and carries, as
\* request parameters, a window start_time / end_time of exactly h hours.
C16_QueueHistoryWindow ==
  (op = "get_queue_history" /\ call.args.hours > 0) =>
     \A k \in DOMAIN sent :
        /\ sent[k].params.kind = "dict"
        /\ Ordinal(fromisoformat(sent[k].params.end_time))
             - Ordinal(fromisoformat(sent[k].params.start_time))
             = call.args.hours * SECONDS_PER_HOUR

\* C16 (amended): get_queue_history(hours) computes no window: every request
\* of the call carries no request parameters, and its URL is the
\* cashier-history endpoint followed by "?hours=" and the decimal text of
\* hours, the same on every attempt.
C16_QueueHistoryHoursInUrl ==
  op = "get_queue_history" =>
     \A k \in DOMAIN sent :
        /\ sent[k].params = PyNone
        /\ sent[k].method = "GET"
        /\ sent[k].url = << base_url, "/api/cashier/history", "?hours=",
                            ToString(call.args.hours) >>

C16_Witness ==
  /\ op = "get_queue_history"
  /\ call.args.hours = 2
  /\ Len(sent) = 2
  /\ trace[1].class = "Timeout"
  /\ sent[2].url = <<BACKEND_API_URL, "/api/cashier/history", "?hours=", "2">>
  /\ sent[2].params = PyNone

\* C18: the client holds no response cache: every finished call of a fetch
\* wrapper has sent at least one request of its own, and what it hands back
\* is determined by the responses of that call alone: the payload of the
\* call's own successful attempt (or the wrapper's default in place of a
\* falsy one), and no value at all when no attempt of the call succeeded.
C18_EveryCallRefetches ==
  (pc = "done" /\ op \in Wrappers) =>
     /\ Len(sent) >= 1
     /\ IF LastOk THEN result = Returned(PyOr(Payload, Default(op)))
                  ELSE result.kind = "raise"

\* C20: no step of any operation (wrapper call, health check, batch fetch,
\* successful or failing) changes base_url, timeout or max_retries: they keep
\* the values set at construction, and the transport is the only field of the
\* client that a call may change.
C20_ConfigurationFrame ==
  [][ /\ base_url' = base_url
      /\ timeout' = timeout
      /\ max_retries' = max_retries
      /\ base_url' = BACKEND_API_URL
      /\ timeout' = REQUEST_TIMEOUT ]_vars

C20_Witness ==
  /\ pc = "done"
  /\ op = "check_backend_health"
  /\ result.kind = "return"
  /\ EveryAttemptFailed
  /\ Len(trace) = 2
  /\ session = "Session"
  /\ base_url = BACKEND_API_URL
  /\ timeout = REQUEST_TIMEOUT
  /\ max_retries = 2

\* the decimal texts a metric value can take in a tool's text
Numerals == { ToString(n) : n \in 0 .. 100 }

\* the messages by which the tools say that they have no data to show
UnavailableMessages ==
  { <<"Current visitor data is unavailable.">>,
    <<"No section traffic data available at the moment.">>,
    <<"Cashier status data is currently unavailable.">>,
    <<"No heatmap data available at the moment.">>,
    <<"Daily analytics are not available yet.">>,
    <<"Traffic forecast is not available at the moment.">> }
  \cup { <<"Could not find data for: ", s1, ", ", s2>> :
           s1 \in SectionNames, s2 \in SectionNames }

\* C17: whenever a wrapper hands its empty default ({} or []) to one of the
\* seven tools, the text the tool returns is one of the explicit
\* data-unavailable messages: it is not empty or blank, and no part of it is
\* a metric value.
C17_EmptyDefaultSaysUnavailable ==
  (pc = "done" /\ tool.name \in ToolNames /\ result = Returned(Default(op))) =>
     /\ tool_output \in UnavailableMessages
     /\ NonEmptyStr(tool_output)
     /\ \A i \in DOMAIN tool_output : tool_output[i] \notin Numerals

\* every tool has rendered an empty default; the one recorded here is
\* CompareSections after a 200 response whose body is the empty array
C17_Witness ==
  /\ pc = "done"
  /\ tool.name = "CompareSections"
  /\ tool.section1 = "a" /\ tool.section2 = "B"
  /\ LastOk /\ Payload = PyList(<<>>)
  /\ result = Returned(PyList(<<>>))
  /\ tool_output = <<"Could not find data for: ", "a", ", ", "B">>

\* the credential of the provider that use_openrouter selects
SelectedKey ==
  IF agent.use_openrouter THEN settings.OPENROUTER_API_KEY
  ELSE settings.OPENAI_API_KEY
ValidKey(key) == key = PyStr("sk-valid")
NoKeyError == Raised("ValueError", <<"No API key provided for LLM">>)

AttemptsBounded ==
  SyncOp =>
     /\ Len(sent) <= max_retries
     /\ Len(trace) = Len(sent)
     /\ attempt <= Len(trace)
     /\ \A k \in DOMAIN trace : k < Len(trace) => trace[k].class # "ok"
     /\ pc = "loop" => \A k \in DOMAIN trace : trace[k].class # "ok"
     /\ (pc = "done" /\ LastOk) => mr_result = Returned(Payload)
     /\ (pc = "done" /\ mr_result.kind = "return" /\ ~LastOk) =>
           mr_result = Returned(PyNone) /\ Len(trace) = max_retries

\* C21: every call of _make_request terminates, returning or raising, after
\* at most max_retries attempts; an attempt is made only while every earlier
\* attempt of the call failed, and the call returns the decoded payload of
\* its first successful attempt.
C21_TerminatesWithinMaxRetries ==
  /\ []AttemptsBounded
  /\ (pc = "loop") ~> (pc = "done" /\ mr_result.kind \in {"return", "raise"})

C21_Witness ==
  /\ pc = "done"
  /\ op = "_make_request"
  /\ max_retries = 3
  /\ Len(sent) = 3
  /\ trace[1].class = "Timeout"
  /\ trace[2].class = "HTTPError"
  /\ LastOk
  /\ mr_result = Returned(Payload)
  /\ Truthy(Payload)

\* what each tool's error message says it was doing
ToolWhat ==
  CASE tool.name = "CurrentVisitorCount"    -> "fetching visitor count"
    [] tool.name = "SectionTrafficAnalysis" -> "fetching section traffic"
    [] tool.name = "CashierQueueStatus"     -> "fetching cashier status"
    [] tool.name = "StoreHeatmap"           -> "fetching heatmap data"
    [] tool.name = "DailyPerformanceReport" -> "fetching daily analytics"
    [] tool.name = "TrafficForecast"        -> "fetching traffic forecast"
    [] tool.name = "CompareSections"        -> "comparing sections"
    [] OTHER -> ""

\* C22: no tool raises: whatever the client call ended with (a payload of
\* any shape, the empty default, an exception), the tool returns a non-empty
\* string, and when the client call raised, the string is the tool's error
\* message carrying the text of that exception, not a data report.
C22_ToolsNeverRaise ==
  (pc = "done" /\ tool.name \in ToolNames) =>
     /\ tool_raised = NoResult
     /\ NonEmptyStr(tool_output)
     /\ result.kind = "raise" =>
          /\ NonEmptyStr(result.msg)
          /\ tool_output = <<"Error ", ToolWhat, ": ">> \o result.msg

C22_Witness ==
  /\ pc = "done"
  /\ tool.name = "CashierQueueStatus"
  /\ max_retries = 2
  /\ Len(trace) = 2
  /\ trace[2].class = "ConnectionError"
  /\ result.kind = "raise"
  /\ tool_raised = NoResult
  /\ tool_output[1] = "Error "
  /\ tool_output[2] = "fetching cashier status"
  /\ InMessage("Failed to call ")

\* a payload of the wrong shape: the section tool is handed an object where
\* it expects an array, and answers with its error message
C22_MalformedPayloadCaught ==
  /\ pc = "done"
  /\ tool.name = "SectionTrafficAnalysis"
  /\ LastOk /\ Payload.kind = "dict" /\ Truthy(Payload)
  /\ tool_raised = NoResult
  /\ tool_output = << "Error ", "fetching section traffic", ": ",
                      "'", "str", "' object has no attribute '", "get", "'" >>

\* C24: process_query never raises past its boundary: for every query and
\* every outcome of the executor it returns a result holding the query, a
\* response text and a timestamp, with error true exactly when the executor
\* failed; the executor exists once it has run.
C24_ProcessQueryAlwaysReturns ==
  agent.response # NoResult =>
     /\ agent.agent_executor = "AgentExecutor"
     /\ agent.response.kind = "return"
     /\ agent.response.value.query = agent.query
     /\ NonEmptyStr(agent.response.value.response)
     /\ agent.response.value.timestamp \in { isoformat(now) : now \in Nows }
     /\ agent.response.value.error = (agent.executor_outcome.kind = "raise")

\* the chat log has even length and alternates user, assistant
WellFormedLog ==
  LET m == session_state.messages IN
  /\ Len(m) % 2 = 0
  /\ \A i \in DOMAIN m : m[i].role = IF i % 2 = 1 THEN "user" ELSE "assistant"

\* what a step of the chat session does to the log
LogStep ==
  LET m  == session_state.messages
      m2 == session_state'.messages
  IN
  /\ (ui'.event = "query" /\ ~validate_query(ui'.query).valid) =>
        (m2 = m /\ agent' = agent)
  /\ m2 # m =>
        \/ ui'.event = "reset" /\ m2 = <<>>
        \/ /\ ui'.event = "query"
           /\ validate_query(ui'.query).valid
           /\ Len(m2) = Len(m) + 2
           /\ SubSeq(m2, 1, Len(m)) = m
           /\ m2[Len(m) + 1] = user_message(ui'.query)
           /\ m2[Len(m) + 2].role = "assistant"
           /\ NonEmptyStr(m2[Len(m) + 2].content)
           /\ agent'.query = ui'.query

\* C23: a query that validate_query rejects appends nothing to the log and
\* does not reach the agent; an accepted query appends exactly one user
\* message and then exactly one assistant message, whether the agent
\* answered or failed; so the log always has even length and alternates
\* user, assistant, also across Reset Chat.
C23_LogWellFormed ==
  /\ []WellFormedLog
  /\ [][LogStep]_vars

C23_Witness ==
  /\ Len(session_state.messages) = 4
  /\ session_state.messages[3] = user_message("compare a and B")
  /\ session_state.messages[4].role = "assistant"
  /\ session_state.messages[4].error
  /\ ui.event = "query"
  /\ ui.query = "hello there"
  /\ ui.error = << "Invalid query: ",
                   "Query doesn't appear to be about retail analytics" >>

====
